---------------------------- MODULE Spec2Model ----------------------------
(***************************************************************************)
(* A model of the zarinpal client library: the result-code taxonomy        *)
(* (results/result_code.rs), the validation-list merge (error.rs), the     *)
(* shape-sensing envelope decoder (results/__private.rs, results/mod.rs)   *)
(* the construction of the client (lib.rs), the three requests and their   *)
(* serialization (methods/), and ZarinpalClient::send (lib.rs).            *)
(***************************************************************************)
EXTENDS Integers, Sequences, FiniteSets, TLC

VARIABLES
    \* ---- result-code taxonomy (results/result_code.rs)
    rcPc,        \* position of the round trip: start, decoded, encoded, reparsed
    rcValue,     \* the wire integer handed to Deserialize
    rcCode,      \* the ResultCode produced by Deserialize
    rcWire,      \* the integer produced by Serialize
    rcBack,      \* the ResultCode produced by deserializing rcWire again
    rcPrev,      \* the round trip finished just before this one (<<>> if none)
    \* ---- validation-list merge (error.rs, deserialize_validations)
    vPc,         \* start, loop, done, failed
    vWire,       \* the JSON value of the `validations` field
    opening,     \* Vec<HashMap<String, String>>
    vIdx,        \* number of items the for loop has consumed
    result,      \* the HashMap<String, Vec<String>> being built
    \* ---- the client and the request of one call
    newArg,      \* the merchant id handed to Zarinpal::new / new_with_client
    zarinpal,    \* what the constructor returned: Ok(client) or Err(uuid::Error)
    built,       \* the request as the caller built it
    request,     \* `mut method` inside send
    url,         \* the url of the call: base_url with the path of the method
    json,        \* the body .json(&method) serialized
    posts,       \* the HTTP requests put on the wire, in order
    response,    \* what .send().await gave: Ok or Err(transport failure)
    \* ---- one call of ZarinpalClient::send
    pc,          \* start, constructed, failed, built, called, url, defaulted,
                 \* serialized, received, decoded, returned, inspected, panicked
    method,      \* the ApiMethod of the call: Request, Verify, Unverified
    body,        \* the JSON envelope received: a function from its keys to slots
    decoded,     \* what .json::<__private::ApiResult<M::Result>>() gave
    outcome,     \* what send returns to the caller (Panic: it does not return)
    inspected,   \* what code() gave the caller of a success payload
    alreadyVerified, \* what already_verified() gave the caller of a Verify
    \* ---- several calls of send in flight on one client
    calls,       \* the locals of each call: pc, method, built, request, url,
                 \* json, posts, response, body, decoded, outcome
    shared,      \* the Zarinpal the calls borrow as &self
    \* ---- the entries of an unverified list verified one after another
    authorities,   \* Unverified::authorities(): the entries, in list order
    verifyPosts,   \* the POSTs the calls of Authorities::verify put on the wire
    verifyResults, \* what each call of Authorities::verify returned
    \* ---- the hook called again and again on one request
    hookCalls    \* the ids handed to set_merchant_id_if_needed, in order

rcVars == <<rcPc, rcValue, rcCode, rcWire, rcBack, rcPrev>>
vVars == <<vPc, vWire, opening, vIdx, result>>
cVars == <<newArg, zarinpal, built, request, url, json, posts, response>>
sVars == <<pc, method, body, decoded, outcome, inspected, alreadyVerified>>
aVars == <<authorities, verifyPosts, verifyResults>>
xVars == <<calls, shared, aVars, hookCalls>>
vars == <<rcVars, vVars, cVars, sVars, xVars>>

-----------------------------------------------------------------------------
(* Bounds of the model.                                                    *)

\* wire integers are drawn from -CodeBound .. CodeBound and the two codes of
\* a success, 100 and 101
CodeBound == 55
\* longest wire list of validations
MaxValidations == 3
\* longest JSON array in a slot of the envelope
MaxArrayLen == 2
\* calls of send in flight at once on one client
NumCalls == 2
\* longest list of unverified authorities
MaxAuthorities == 3
\* calls of the merchant-id hook on one request
MaxHookCalls == 3

WireRange == ((0 - CodeBound) .. CodeBound) \cup {100, 101}

-----------------------------------------------------------------------------
(* results/result_code.rs                                                  *)

Named(n) == [name |-> n, raw |-> 0]
Unknown(e) == [name |-> "Unknown", raw |-> e]
NoCode == [name |-> "", raw |-> 0]

\* the decode table with one more row: the positive spelling of a wage code
\* is accepted as well
FromI64AcceptsPositive(value) ==
    CASE value = -9 -> Named("Validation")
      [] value = -10 -> Named("InvalidTerminalInfo")
      [] value = -11 -> Named("InactiveTerminal")
      [] value = -12 -> Named("ToManyAttempts")
      [] value = -15 -> Named("SuspendTerminal")
      [] value = -16 -> Named("TerminalLevelToLow")
      [] value = -17 -> Named("TerminalBlueLevelRestriction")
      [] value = 100 -> Named("Success")
      [] value = 30 -> Named("FloatingWagesNotAllowed")
      [] value = -30 -> Named("FloatingWagesNotAllowed")
      [] value = -31 -> Named("TerminalCantAcceptWages")
      [] value = -32 -> Named("TotalFloatingWagesHigherThanMaxAmount")
      [] value = -33 -> Named("InvalidWagesFloating")
      [] value = -34 -> Named("TotalFixedWagesHigherThanMaxAmount")
      [] value = -35 -> Named("TooManyFloutingWagesPartition")
      [] value = -36 -> Named("FloatingWagesAmountTooLow")
      [] value = -37 -> Named("OneOrMoreIBansAreInactive")
      [] value = -38 -> Named("IBanNotSetInShaparak")
      [] value = -39 -> Named("ErrorInWages")
      [] value = -40 -> Named("InvalidExpireInValue")
      [] value = -50 -> Named("InvalidSeasonUnmatchedAmounts")
      [] value = -51 -> Named("InvalidSeasonNoActivePayment")
      [] value = -52 -> Named("InvalidSeason")
      [] value = -53 -> Named("InvalidSeasonInvalidMerchantId")
      [] value = -54 -> Named("InvalidAuthority")
      [] value = 101 -> Named("Verified")
      [] OTHER -> Unknown(value)

\* impl From<i64> for ResultCode
FromI64(value) ==
    CASE value = -9 -> Named("Validation")
      [] value = -10 -> Named("InvalidTerminalInfo")
      [] value = -11 -> Named("InactiveTerminal")
      [] value = -12 -> Named("ToManyAttempts")
      [] value = -15 -> Named("SuspendTerminal")
      [] value = -16 -> Named("TerminalLevelToLow")
      [] value = -17 -> Named("TerminalBlueLevelRestriction")
      [] value = 100 -> Named("Success")
      [] value = -30 -> Named("FloatingWagesNotAllowed")
      [] value = -31 -> Named("TerminalCantAcceptWages")
      [] value = -32 -> Named("TotalFloatingWagesHigherThanMaxAmount")
      [] value = -33 -> Named("InvalidWagesFloating")
      [] value = -34 -> Named("TotalFixedWagesHigherThanMaxAmount")
      [] value = -35 -> Named("TooManyFloutingWagesPartition")
      [] value = -36 -> Named("FloatingWagesAmountTooLow")
      [] value = -37 -> Named("OneOrMoreIBansAreInactive")
      [] value = -38 -> Named("IBanNotSetInShaparak")
      [] value = -39 -> Named("ErrorInWages")
      [] value = -40 -> Named("InvalidExpireInValue")
      [] value = -50 -> Named("InvalidSeasonUnmatchedAmounts")
      [] value = -51 -> Named("InvalidSeasonNoActivePayment")
      [] value = -52 -> Named("InvalidSeason")
      [] value = -53 -> Named("InvalidSeasonInvalidMerchantId")
      [] value = -54 -> Named("InvalidAuthority")
      [] value = 101 -> Named("Verified")
      [] OTHER -> Unknown(value)

\* impl From<ResultCode> for i64
ToI64(value) ==
    CASE value.name = "Validation" -> -9
      [] value.name = "InvalidTerminalInfo" -> -10
      [] value.name = "InactiveTerminal" -> -11
      [] value.name = "ToManyAttempts" -> -12
      [] value.name = "SuspendTerminal" -> -15
      [] value.name = "TerminalLevelToLow" -> -16
      [] value.name = "TerminalBlueLevelRestriction" -> -17
      [] value.name = "Success" -> 100
      [] value.name = "FloatingWagesNotAllowed" -> 30
      [] value.name = "TerminalCantAcceptWages" -> 31
      [] value.name = "TotalFloatingWagesHigherThanMaxAmount" -> 32
      [] value.name = "InvalidWagesFloating" -> 33
      [] value.name = "TotalFixedWagesHigherThanMaxAmount" -> 34
      [] value.name = "TooManyFloutingWagesPartition" -> 35
      [] value.name = "FloatingWagesAmountTooLow" -> 36
      [] value.name = "OneOrMoreIBansAreInactive" -> 37
      [] value.name = "IBanNotSetInShaparak" -> 38
      [] value.name = "ErrorInWages" -> 39
      [] value.name = "InvalidExpireInValue" -> 40
      [] value.name = "InvalidSeasonUnmatchedAmounts" -> 50
      [] value.name = "InvalidSeasonNoActivePayment" -> 51
      [] value.name = "InvalidSeason" -> 52
      [] value.name = "InvalidSeasonInvalidMerchantId" -> 53
      [] value.name = "InvalidAuthority" -> 54
      [] value.name = "Verified" -> 101
      [] value.name = "Unknown" -> value.raw


-----------------------------------------------------------------------------
(* The JSON values of a response body.  A value is a record {t, n, s, l}:  *)
(* t is the JSON shape, n the integer of a number, s the text of a string, *)
(* l the elements of an array.  A JSON object is a function from its keys  *)
(* to values; the elements of an array are JSON objects.                   *)

JStr(s) == [t |-> "str", n |-> 0, s |-> s, l |-> <<>>]
JNum(n) == [t |-> "num", n |-> n, s |-> "", l |-> <<>>]
JBool == [t |-> "bool", n |-> 0, s |-> "", l |-> <<>>]
JNull == [t |-> "null", n |-> 0, s |-> "", l |-> <<>>]
JList(l) == [t |-> "list", n |-> 0, s |-> "", l |-> l]
EmptyObject == [k \in {} |-> JNull]

\* the object obj with key k removed
Without(obj, k) == [x \in (DOMAIN obj) \ {k} |-> obj[x]]
\* the object obj with key k set to v
With(obj, k, v) == [x \in (DOMAIN obj) \cup {k} |-> IF x = k THEN v ELSE obj[x]]

\* Result<T, E> and Option<T>
Ok(v) == [tag |-> "Ok", value |-> v]
Err(e) == [tag |-> "Err", error |-> e]
None == [tag |-> "None"]
Some(v) == [tag |-> "Some", value |-> v]

\* the serde_json error of a body that does not decode as the expected type
DecodeError == "decode error"

\* what serde's primitive and derived deserializers accept
IsString(obj, k) == k \in DOMAIN obj /\ obj[k].t = "str"
IsI64(obj, k) == k \in DOMAIN obj /\ obj[k].t = "num"
IsU64(obj, k) == k \in DOMAIN obj /\ obj[k].t = "num" /\ obj[k].n >= 0

-----------------------------------------------------------------------------
(* error.rs: ApiError and deserialize_validations                          *)

EmptyMap == [k \in {} |-> <<>>]

\* vec.push(val): the last writer replaces the list
PushOverwrites(res, key, val) ==
    [k \in (DOMAIN res) \cup {key} |-> IF k = key THEN <<val>> ELSE res[k]]

\* result.entry(key).or_insert_with(|| vec![]).push(val)
Push(res, key, val) ==
    IF key \in DOMAIN res
    THEN [res EXCEPT ![key] = Append(@, val)]
    ELSE [k \in (DOMAIN res) \cup {key} |-> IF k = key THEN <<val>> ELSE res[k]]

\* for (key, val) in item { ... }: the entries of one HashMap<String, String>;
\* the keys of one item are distinct, so the order in which the HashMap
\* yields them does not change the lists
RECURSIVE MergeEntries(_, _, _)
MergeEntries(res, item, keys) ==
    IF keys = {} THEN res
    ELSE LET key == CHOOSE k \in keys : TRUE
         IN MergeEntries(Push(res, key, item[key]), item, keys \ {key})

MergeItem(res, item) == MergeEntries(res, item, DOMAIN item)

\* for item in opening { ... }
RECURSIVE MergeAll(_, _)
MergeAll(res, items) ==
    IF items = <<>> THEN res
    ELSE MergeAll(MergeItem(res, Head(items)), Tail(items))

\* Vec::<HashMap<String, String>>::deserialize: the value must be an array
\* of objects whose values are all strings
IsStringMap(obj) == \A k \in DOMAIN obj : obj[k].t = "str"
StringMap(obj) == [k \in DOMAIN obj |-> obj[k].s]
DeserializeOpening(v) ==
    IF v.t = "list" /\ \A i \in 1..Len(v.l) : IsStringMap(v.l[i])
    THEN Ok([i \in 1..Len(v.l) |-> StringMap(v.l[i])])
    ELSE Err(DecodeError)

\* fn deserialize_validations
deserialize_validations(v) ==
    LET opened == DeserializeOpening(v)
    IN IF opened.tag = "Err" THEN opened
       ELSE Ok(MergeAll(EmptyMap, opened.value))

\* #[derive(Deserialize)] struct ApiError { code, message, validations }
DeserializeApiError(obj) ==
    IF /\ IsI64(obj, "code")
       /\ IsString(obj, "message")
       /\ "validations" \in DOMAIN obj
       /\ deserialize_validations(obj["validations"]).tag = "Ok"
    THEN Ok([code |-> FromI64(obj["code"].n),
             message |-> obj["message"].s,
             validations |-> deserialize_validations(obj["validations"]).value])
    ELSE Err(DecodeError)

-----------------------------------------------------------------------------
(* results/verify.rs, results/request.rs, results/unverified.rs: the three *)
(* response payloads, as #[derive(Deserialize)] decodes them from a JSON   *)
(* object: every field without a default is required, a field of another  *)
(* JSON type is an error, keys the struct does not name are ignored.       *)

\* #[derive(Deserialize)] enum FeeType { Payer, Merchant, Unknown }
IsFeeType(obj, k) == IsString(obj, k) /\ obj[k].s \in {"Payer", "Merchant", "Unknown"}

\* #[derive(Deserialize)] struct Wage { iban, amount, description }
IsWage(obj) == IsString(obj, "iban") /\ IsU64(obj, "amount") /\ IsString(obj, "description")
Wage(obj) ==
    [iban |-> obj["iban"].s, amount |-> obj["amount"].n,
     description |-> obj["description"].s]

\* wages as a field that is never read from the wire
DeserializeWagesSkipped(obj) == Ok(None)

\* #[serde(default)] wages: Option<Vec<Wage>>
DeserializeWages(obj) ==
    IF "wages" \notin DOMAIN obj THEN Ok(None)
    ELSE LET v == obj["wages"]
         IN IF v.t = "null" THEN Ok(None)
            ELSE IF v.t = "list" /\ \A i \in 1..Len(v.l) : IsWage(v.l[i])
            THEN Ok(Some([i \in 1..Len(v.l) |-> Wage(v.l[i])]))
            ELSE Err(DecodeError)

\* #[derive(Deserialize)] struct Request
DeserializeRequest(obj) ==
    IF /\ IsI64(obj, "code")
       /\ IsString(obj, "message")
       /\ IsString(obj, "authority")
       /\ IsFeeType(obj, "fee_type")
       /\ IsU64(obj, "fee")
    THEN Ok([code |-> FromI64(obj["code"].n),
             message |-> obj["message"].s,
             authority |-> obj["authority"].s,
             fee_type |-> obj["fee_type"].s,
             fee |-> obj["fee"].n])
    ELSE Err(DecodeError)

\* #[derive(Deserialize)] struct Verify
DeserializeVerify(obj) ==
    IF /\ IsI64(obj, "code")
       /\ IsString(obj, "message")
       /\ IsString(obj, "card_hash")
       /\ IsString(obj, "card_pan")
       /\ IsU64(obj, "ref_id")
       /\ IsFeeType(obj, "fee_type")
       /\ IsU64(obj, "fee")
       /\ DeserializeWages(obj).tag = "Ok"
    THEN Ok([code |-> FromI64(obj["code"].n),
             message |-> obj["message"].s,
             card_hash |-> obj["card_hash"].s,
             card_pan |-> obj["card_pan"].s,
             ref_id |-> obj["ref_id"].n,
             fee_type |-> obj["fee_type"].s,
             fee |-> obj["fee"].n,
             wages |-> DeserializeWages(obj).value])
    ELSE Err(DecodeError)

\* #[derive(Deserialize)] struct Authorities
IsAuthorities(obj) ==
    /\ IsString(obj, "authority")
    /\ IsU64(obj, "amount")
    /\ IsString(obj, "callback_url")
    /\ IsString(obj, "referer")
    /\ IsString(obj, "date")
Authorities(obj) ==
    [authority |-> obj["authority"].s, amount |-> obj["amount"].n,
     callback_url |-> obj["callback_url"].s, referer |-> obj["referer"].s,
     date |-> obj["date"].s]

\* #[derive(Deserialize)] struct Unverified: code is kept as the wire String
DeserializeUnverified(obj) ==
    IF /\ IsString(obj, "code")
       /\ IsString(obj, "message")
       /\ "authorities" \in DOMAIN obj
       /\ obj["authorities"].t = "list"
       /\ \A i \in 1..Len(obj["authorities"].l) : IsAuthorities(obj["authorities"].l[i])
    THEN Ok([code |-> obj["code"].s,
             message |-> obj["message"].s,
             authorities |-> [i \in 1..Len(obj["authorities"].l) |->
                                 Authorities(obj["authorities"].l[i])]])
    ELSE Err(DecodeError)

\* M::Result of the three ApiMethods
Methods == {"Request", "Verify", "Unverified"}
DeserializeResult(M, obj) ==
    CASE M = "Request" -> DeserializeRequest(obj)
      [] M = "Verify" -> DeserializeVerify(obj)
      [] M = "Unverified" -> DeserializeUnverified(obj)

\* the characters of the strings the model uses as an Unverified code
Chars(s) ==
    CASE s = "100" -> <<"1", "0", "0">>
      [] s = "101" -> <<"1", "0", "1">>
      [] s = "-9" -> <<"-", "9">>
      [] s = "+100" -> <<"+", "1", "0", "0">>
      [] s = "abc" -> <<"a", "b", "c">>
      [] s = "" -> <<>>
      [] s = "-" -> <<"-">>

Digits == {"0", "1", "2", "3", "4", "5", "6", "7", "8", "9"}
DigitValue(c) ==
    CASE c = "0" -> 0 [] c = "1" -> 1 [] c = "2" -> 2 [] c = "3" -> 3 [] c = "4" -> 4
      [] c = "5" -> 5 [] c = "6" -> 6 [] c = "7" -> 7 [] c = "8" -> 8 [] c = "9" -> 9

RECURSIVE ParseDigits(_, _)
ParseDigits(cs, acc) ==
    IF cs = <<>> THEN acc
    ELSE ParseDigits(Tail(cs), acc * 10 + DigitValue(Head(cs)))

\* a parse that reads the digits and drops the sign
ParseI64Unsigned(s) ==
    LET cs == Chars(s)
        signed == cs # <<>> /\ Head(cs) \in {"-", "+"}
        ds == IF signed THEN Tail(cs) ELSE cs
    IN IF ds = <<>> \/ \E i \in 1..Len(ds) : ds[i] \notin Digits
       THEN Err("ParseIntError")
       ELSE Ok(ParseDigits(ds, 0))

\* str::parse::<i64>(): an optional sign, then one or more decimal digits
ParseI64(s) ==
    LET cs == Chars(s)
        signed == cs # <<>> /\ Head(cs) \in {"-", "+"}
        ds == IF signed THEN Tail(cs) ELSE cs
    IN IF ds = <<>> \/ \E i \in 1..Len(ds) : ds[i] \notin Digits
       THEN Err("ParseIntError")
       ELSE Ok(IF Head(cs) = "-" THEN 0 - ParseDigits(ds, 0) ELSE ParseDigits(ds, 0))

\* a panic: the call does not return
Panic == [tag |-> "Panic"]

\* impl RequestResult: fn code(&self)
code(M, payload) ==
    IF M = "Unverified"
    THEN LET parsedCode == ParseI64(payload.code)
         IN IF parsedCode.tag = "Err" THEN Panic ELSE Ok(FromI64(parsedCode.value))
    ELSE Ok(payload.code)

\* an already_verified that is true of every code of a success
AlreadyVerifiedOnSuccess(payload) ==
    payload.code \in {Named("Success"), Named("Verified")}

\* Verify::already_verified
already_verified(payload) == payload.code = Named("Verified")

-----------------------------------------------------------------------------
(* results/__private.rs: WiredOption<T> and the envelope ApiResult<R>.     *)
(* A slot of the envelope is a record {shape, len, obj}: the JSON shape of *)
(* the value, the number of elements of an array, the fields of an object. *)

SlotArray(n) == [shape |-> "array", len |-> n, obj |-> EmptyObject]
SlotObject(o) == [shape |-> "object", len |-> 0, obj |-> o]
SlotOther(sh) == [shape |-> sh, len |-> 0, obj |-> EmptyObject]
OtherShapes == {"string", "number", "bool", "null"}

WiredNone == [tag |-> "None"]
WiredSome(v) == [tag |-> "Some", value |-> v]

\* MapOrSeq::visit_seq: the elements of _seq are not read
visit_seq == Ok(WiredNone)

\* T::deserialize for the type parameter T of WiredOption<T>: ApiError, or
\* the M::Result of a method
DeserializeAs(T, obj) ==
    IF T = "ApiError" THEN DeserializeApiError(obj) ELSE DeserializeResult(T, obj)

\* MapOrSeq::visit_map: the object is decoded as T
visit_map(T, obj) ==
    LET inner == DeserializeAs(T, obj)
    IN IF inner.tag = "Err" THEN inner ELSE Ok(WiredSome(inner.value))

\* impl Deserialize for WiredOption<T>: deserializer.deserialize_any(MapOrSeq).
\* a decoder that takes every shape it cannot read for an absent slot
DeserializeWiredOptionLenient(T, slot) ==
    CASE slot.shape = "array" ->
            IF slot.len = 0 THEN visit_seq ELSE Err(DecodeError)
      [] slot.shape = "object" ->
            IF visit_map(T, slot.obj).tag = "Err" THEN Ok(WiredNone)
            ELSE visit_map(T, slot.obj)
      [] OTHER -> Ok(WiredNone)

\* serde_json calls visit_seq for an array and visit_map for an object, and
\* every other shape reaches a Visitor method MapOrSeq does not define, whose
\* default is an invalid-type error.  After visit_seq returns, serde_json
\* requires the array to be exhausted (end_seq: "trailing characters"; for a
\* Value: "invalid length"): visit_seq reads none of the elements, so its
\* Ok(None) survives only for an array that has none.
DeserializeWiredOption(T, slot) ==
    CASE slot.shape = "array" ->
            IF slot.len = 0 THEN visit_seq ELSE Err(DecodeError)
      [] slot.shape = "object" -> visit_map(T, slot.obj)
      [] OTHER -> Err(DecodeError)

\* an envelope without the defaults: both keys are required
DeserializeApiResultRequired(M, envelope) ==
    IF DOMAIN envelope # {"data", "errors"} THEN Err(DecodeError)
    ELSE LET data == DeserializeWiredOption(M, envelope["data"])
             errors == DeserializeWiredOption("ApiError", envelope["errors"])
         IN IF data.tag = "Err" \/ errors.tag = "Err" THEN Err(DecodeError)
            ELSE Ok([data |-> data.value, errors |-> errors.value])

\* #[derive(Deserialize)] struct ApiResult<R> { data, errors }, both with
\* #[serde(default = "WiredOption::default")]: a missing key is None
DeserializeApiResult(M, envelope) ==
    LET data == IF "data" \in DOMAIN envelope
                THEN DeserializeWiredOption(M, envelope["data"])
                ELSE Ok(WiredNone)
        errors == IF "errors" \in DOMAIN envelope
                  THEN DeserializeWiredOption("ApiError", envelope["errors"])
                  ELSE Ok(WiredNone)
    IN IF data.tag = "Err" \/ errors.tag = "Err" THEN Err(DecodeError)
       ELSE Ok([data |-> data.value, errors |-> errors.value])

-----------------------------------------------------------------------------
(* results/mod.rs and error.rs: the resolution of a decoded envelope       *)

\* a resolution that looks at errors first
IntoApiResultErrorsFirst(value) ==
    IF value.errors.tag = "Some" THEN Err(value.errors.value)
    ELSE IF value.data.tag = "Some" THEN Ok(value.data.value)
    ELSE Panic

\* impl From<__private::ApiResult<R>> for ApiResult<R>
IntoApiResult(value) ==
    IF value.data.tag = "Some" THEN Ok(value.data.value)
    ELSE IF value.errors.tag = "Some" THEN Err(value.errors.value)
    ELSE Panic  \* unreachable!()

\* enum Error and its From impls
ZarinpalApiError(e) == [variant |-> "ZarinpalApiError", api |-> e]
HttpClientError(e) == [variant |-> "HttpClientError", http |-> e]

\* ZarinpalClient::send, from the received body on:
\*   let result = ... .json::<ApiResult<M::Result>>().await;
\*   result.map(|f| Into::<Result<M::Result, ApiError>>::into(f))?
\*         .map_err(|e| e.into())
SendResult(r) ==
    IF r.tag = "Err" THEN Err(HttpClientError(r.error))
    ELSE LET resolved == IntoApiResult(r.value)
         IN IF resolved.tag = "Panic" THEN Panic
            ELSE IF resolved.tag = "Err" THEN Err(ZarinpalApiError(resolved.error))
            ELSE resolved

-----------------------------------------------------------------------------
(* The response bodies the model feeds to the decoder.                     *)

NoValue == [tag |-> "NoValue"]

WireCodes == {100, 101, -9, -30, 7}
FeeTypes == {"Merchant", "Payer"}
Fees == {0, 100}

RequestObject(c, ft, f) ==
    [code |-> JNum(c), message |-> JStr("Success"),
     authority |-> JStr("A00000000000000000000000000217885159"),
     fee_type |-> JStr(ft), fee |-> JNum(f)]

WireWage1 ==
    [iban |-> JStr("IR130570028780010957775103"), amount |-> JNum(1000),
     description |-> JStr("first")]
WireWage2 ==
    [iban |-> JStr("IR670170000000352965862009"), amount |-> JNum(5000),
     description |-> JStr("second")]
WireWages ==
    {JNull, JList(<<>>), JList(<<WireWage1>>), JList(<<WireWage1, WireWage2>>),
     JList(<<WireWage2, WireWage1>>)}

VerifyObject(c) ==
    [code |-> JNum(c), message |-> JStr("Verified"),
     card_hash |-> JStr("1EBE3EBEBE35C7EC0F8D6EE4F2F859107A87822CA179BC9528767EA7B5489B69"),
     card_pan |-> JStr("502229******5995"), ref_id |-> JNum(201),
     fee_type |-> JStr("Merchant"), fee |-> JNum(0)]

WireAuthority1 ==
    [authority |-> JStr("A00000000000000000000000000207288780"), amount |-> JNum(50500),
     callback_url |-> JStr("https://golroz.com/vpay"),
     referer |-> JStr("https://golroz.com/test-form/"),
     date |-> JStr("2020-07-01 17:33:25")]
WireAuthority2 ==
    [authority |-> JStr("A00000000000000000000000000207288781"), amount |-> JNum(70000),
     callback_url |-> JStr("https://golroz.com/vpay"),
     referer |-> JStr("https://golroz.com/test-form/"),
     date |-> JStr("2020-07-02 09:10:11")]
WireAuthorities ==
    {<<>>, <<WireAuthority1>>, <<WireAuthority1, WireAuthority2>>}
CodeStrings == {"100", "101", "-9", "+100", "abc", "", "-"}

UnverifiedObject(cs, auths) ==
    [code |-> JStr(cs), message |-> JStr("Success"), authorities |-> JList(auths)]

\* objects that decode as the payload of method M
ValidObjects(M) ==
    CASE M = "Request" ->
            {RequestObject(c, ft, f) : c \in WireCodes, ft \in FeeTypes, f \in Fees}
      [] M = "Verify" ->
            {VerifyObject(c) : c \in WireCodes}
            \cup {With(VerifyObject(c), "wages", w) : c \in WireCodes, w \in WireWages}
      [] M = "Unverified" ->
            {UnverifiedObject(cs, a) : cs \in CodeStrings, a \in WireAuthorities}

\* objects that do not: a required field missing or of another type
BrokenObjects(M) ==
    CASE M = "Request" ->
            LET o == RequestObject(100, "Merchant", 100)
            IN {Without(o, k) : k \in DOMAIN o}
               \cup {With(o, "code", JStr("100")), With(o, "fee", JNum(-1)),
                     With(o, "fee_type", JStr("Other"))}
      [] M = "Verify" ->
            LET o == VerifyObject(100)
            IN {Without(o, k) : k \in DOMAIN o}
               \cup {With(o, "wages", JStr("none")),
                     With(o, "wages", JList(<<Without(WireWage1, "iban")>>)),
                     With(o, "ref_id", JStr("201"))}
      [] M = "Unverified" ->
            LET o == UnverifiedObject("100", <<WireAuthority1>>)
            IN {Without(o, k) : k \in DOMAIN o}
               \cup {With(o, "code", JNum(100)),
                     With(o, "authorities", JList(<<Without(WireAuthority1, "date")>>))}

\* the wire form of validations: a list of single-entry objects
FieldNames == {"merchant_id", "amount"}
Messages == {"a", "b", "c"}
WireItems == {[k \in {f} |-> JStr(m)] : f \in FieldNames, m \in Messages}
WireLists == UNION {[1..n -> WireItems] : n \in 0..MaxValidations}
Entry(f, m) == [k \in {f} |-> JStr(m)]
SampleLists ==
    {<<>>, <<Entry("merchant_id", "a")>>,
     <<Entry("merchant_id", "a"), Entry("merchant_id", "b"), Entry("amount", "c")>>}
ErrorCodes == {-9, -54, 3}

ErrorObject(c, l) ==
    [code |-> JNum(c), message |-> JStr("The merchant_id field is required."),
     validations |-> JList(l)]
ValidErrorObjects == {ErrorObject(c, l) : c \in ErrorCodes, l \in SampleLists}
BrokenErrorObjects ==
    LET o == ErrorObject(-9, <<Entry("merchant_id", "a")>>)
    IN {Without(o, k) : k \in DOMAIN o}
       \cup {With(o, "validations", JList(<<[merchant_id |-> JNum(1)]>>)),
             With(o, "validations", JNull),
             With(o, "code", JStr("-9"))}

\* a key of the envelope that is not there
Missing == SlotOther("missing")
NonObjectSlots ==
    {Missing} \cup {SlotArray(n) : n \in 0..MaxArrayLen} \cup {SlotOther(sh) : sh \in OtherShapes}
DataSlots(M) ==
    NonObjectSlots \cup {SlotObject(o) : o \in ValidObjects(M) \cup BrokenObjects(M)}
ErrorsSlots ==
    NonObjectSlots \cup {SlotObject(o) : o \in ValidErrorObjects \cup BrokenErrorObjects}

Envelope(d, e) ==
    [k \in (IF d = Missing THEN {} ELSE {"data"}) \cup (IF e = Missing THEN {} ELSE {"errors"})
        |-> IF k = "data" THEN d ELSE e]
Envelopes(M) == {Envelope(d, e) : d \in DataSlots(M), e \in ErrorsSlots}

-----------------------------------------------------------------------------
(* lib.rs: the construction of the client.  uuid::Uuid::parse_str accepts  *)
(* the hyphenated form, the simple form of 32 hexadecimal digits, the      *)
(* braced form and the urn form, in either letter case; to_string writes   *)
(* the hyphenated form in lower case.                                      *)

\* the characters of the merchant ids the model hands to the constructors
MerchantIdChars(s) ==
    CASE s = "1344b5d4-0048-11e8-94db-005056a205be" ->
          <<"1", "3", "4", "4", "b", "5", "d", "4", "-", "0", "0",
            "4", "8", "-", "1", "1", "e", "8", "-", "9", "4", "d",
            "b", "-", "0", "0", "5", "0", "5", "6", "a", "2", "0",
            "5", "b", "e">>
      [] s = "1344B5D4-0048-11E8-94DB-005056A205BE" ->
          <<"1", "3", "4", "4", "B", "5", "D", "4", "-", "0", "0",
            "4", "8", "-", "1", "1", "E", "8", "-", "9", "4", "D",
            "B", "-", "0", "0", "5", "0", "5", "6", "A", "2", "0",
            "5", "B", "E">>
      [] s = "1344b5d4004811e894db005056a205be" ->
          <<"1", "3", "4", "4", "b", "5", "d", "4", "0", "0", "4",
            "8", "1", "1", "e", "8", "9", "4", "d", "b", "0", "0",
            "5", "0", "5", "6", "a", "2", "0", "5", "b", "e">>
      [] s = "{1344b5d4-0048-11e8-94db-005056a205be}" ->
          <<"{", "1", "3", "4", "4", "b", "5", "d", "4", "-", "0",
            "0", "4", "8", "-", "1", "1", "e", "8", "-", "9", "4",
            "d", "b", "-", "0", "0", "5", "0", "5", "6", "a", "2",
            "0", "5", "b", "e", "}">>
      [] s = "urn:uuid:1344b5d4-0048-11e8-94db-005056a205be" ->
          <<"u", "r", "n", ":", "u", "u", "i", "d", ":", "1", "3",
            "4", "4", "b", "5", "d", "4", "-", "0", "0", "4", "8",
            "-", "1", "1", "e", "8", "-", "9", "4", "d", "b", "-",
            "0", "0", "5", "0", "5", "6", "a", "2", "0", "5", "b",
            "e">>
      [] s = "merchant_id" ->
          <<"m", "e", "r", "c", "h", "a", "n", "t", "_", "i",
            "d">>
      [] s = "" ->
          <<>>
      [] s = "xxxxxxxx-xxxx-xxxx-xxxx-xxxxxxxxxxxx" ->
          <<"x", "x", "x", "x", "x", "x", "x", "x", "-", "x", "x",
            "x", "x", "-", "x", "x", "x", "x", "-", "x", "x", "x",
            "x", "-", "x", "x", "x", "x", "x", "x", "x", "x", "x",
            "x", "x", "x">>
      [] s = "1344b5d4-0048-11e8-94db-005056a205b" ->
          <<"1", "3", "4", "4", "b", "5", "d", "4", "-", "0", "0",
            "4", "8", "-", "1", "1", "e", "8", "-", "9", "4", "d",
            "b", "-", "0", "0", "5", "0", "5", "6", "a", "2", "0",
            "5", "b">>

IsHex(c) ==
    c \in {"0", "1", "2", "3", "4", "5", "6", "7", "8", "9",
           "a", "b", "c", "d", "e", "f", "A", "B", "C", "D", "E", "F"}
Lower(c) ==
    CASE c = "A" -> "a" [] c = "B" -> "b" [] c = "C" -> "c"
      [] c = "D" -> "d" [] c = "E" -> "e" [] c = "F" -> "f"
      [] OTHER -> c

IsHyphenated(c) ==
    /\ Len(c) = 36
    /\ \A i \in 1..36 :
          IF i \in {9, 14, 19, 24} THEN c[i] = "-" ELSE IsHex(c[i])
IsSimple(c) == Len(c) = 32 /\ \A i \in 1..32 : IsHex(c[i])
Unwrapped(c) ==
    IF Len(c) = 38 /\ c[1] = "{" /\ c[38] = "}" THEN SubSeq(c, 2, 37)
    ELSE IF /\ Len(c) = 45
               /\ SubSeq(c, 1, 9) = <<"u", "r", "n", ":", "u", "u", "i", "d", ":">>
         THEN SubSeq(c, 10, 45)
    ELSE c
HexDigitsOf(c) ==
    LET digits == SelectSeq(c, LAMBDA x : x # "-")
    IN [i \in 1..Len(digits) |-> Lower(digits[i])]

\* a parser that never fails: the nil uuid stands for what it cannot read
NilUuid == [i \in 1..32 |-> "0"]
parse_strAcceptsAll(s) ==
    LET c == Unwrapped(MerchantIdChars(s))
    IN IF IsHyphenated(c) \/ IsSimple(c) THEN Ok(HexDigitsOf(c)) ELSE Ok(NilUuid)

\* uuid::Uuid::parse_str(merchant_id): the 32 digits of the uuid, or an error
parse_str(s) ==
    LET c == Unwrapped(MerchantIdChars(s))
    IN IF IsHyphenated(c) \/ IsSimple(c)
       THEN Ok(HexDigitsOf(c))
       ELSE Err("uuid::Error")

RECURSIVE Concat(_)
Concat(c) == IF c = <<>> THEN "" ELSE Head(c) \o Concat(Tail(c))

\* merchant_id_uuid.to_string()
to_string(u) ==
    Concat(SubSeq(u, 1, 8)) \o "-" \o Concat(SubSeq(u, 9, 12)) \o "-"
        \o Concat(SubSeq(u, 13, 16)) \o "-" \o Concat(SubSeq(u, 17, 20))
        \o "-" \o Concat(SubSeq(u, 21, 32))

\* reqwest::Url: "https://api.zarinpal.com/".parse().unwrap()
BaseUrl == [origin |-> "https://api.zarinpal.com", path |-> "/"]
\* url.set_path(M::PATH)
set_path(u, path) == [u EXCEPT !.path = "/" \o path]

\* Zarinpal { client, merchant_id, base_url }
Zarinpal(client, merchant_id) ==
    [client |-> client, merchant_id |-> merchant_id, base_url |-> BaseUrl]

\* Zarinpal::new_with_client(merchant_id, client)
new_with_client(merchant_id, client) ==
    LET merchant_id_uuid == parse_str(merchant_id)
    IN IF merchant_id_uuid.tag = "Err"
       THEN Err(merchant_id_uuid.error)
       ELSE Ok(Zarinpal(client, to_string(merchant_id_uuid.value)))

\* Zarinpal::new(merchant_id)
new(merchant_id) ==
    LET merchant_id_uuid == parse_str(merchant_id)
    IN IF merchant_id_uuid.tag = "Err"
       THEN Err(merchant_id_uuid.error)
       ELSE Ok(Zarinpal("reqwest::Client::new()",
                        to_string(merchant_id_uuid.value)))

-----------------------------------------------------------------------------
(* methods/request.rs, methods/verify.rs, methods/unverified.rs: the three *)
(* requests, the hook that defaults their merchant id and their            *)
(* #[derive(Serialize)] bodies.  An Option field is None or Some(v).       *)

\* the keys of Metadata, each an Option<String>
MetadataFields == {"mobile", "email", "order_id", "card_pan"}

\* Wage { iban, amount, description } of a payment request
RequestWage(iban, amount, description) ==
    [iban |-> iban, amount |-> amount, description |-> description]

\* RequestPayment { merchant_id, currency, amount, callback_url,
\*                  description, metadata, wages, zarinpal }
RequestPayment(merchant_id, currency, amount, callback_url, description, metadata, wages, handle) ==
    [merchant_id |-> merchant_id, currency |-> currency, amount |-> amount,
     callback_url |-> callback_url, description |-> description,
     metadata |-> metadata, wages |-> wages, zarinpal |-> handle]

\* VerifyPayment { merchant_id, amount, authority, zarinpal }
VerifyPayment(merchant_id, amount, authority, handle) ==
    [merchant_id |-> merchant_id, amount |-> amount,
     authority |-> authority, zarinpal |-> handle]

\* UnverifiedRequests { merchant_id, zarinpal }
UnverifiedRequests(merchant_id, handle) ==
    [merchant_id |-> merchant_id, zarinpal |-> handle]

\* const PATH of the three ApiMethod impls
PATH(M) ==
    CASE M = "Request" -> "pg/v4/payment/request.json"
      [] M = "Verify" -> "pg/v4/payment/verify.json"
      [] M = "Unverified" -> "pg/v4/payment/unVerified.json"

\* a hook that always writes the client's merchant id
SetMerchantIdAlways(req, merchant_id) ==
    [req EXCEPT !.merchant_id = Some(merchant_id)]

\* RequestPayment::set_merchant_id_if_needed
RequestPaymentSetMerchantId(req, merchant_id) ==
    IF req.merchant_id = None
    THEN [req EXCEPT !.merchant_id = Some(merchant_id)]
    ELSE req

\* VerifyPayment::set_merchant_id_if_needed
VerifyPaymentSetMerchantId(req, merchant_id) ==
    IF req.merchant_id = None
    THEN [req EXCEPT !.merchant_id = Some(merchant_id)]
    ELSE req

\* UnverifiedRequests::set_merchant_id_if_needed
UnverifiedRequestsSetMerchantId(req, merchant_id) ==
    IF req.merchant_id = None
    THEN [req EXCEPT !.merchant_id = Some(merchant_id)]
    ELSE req

\* method.set_merchant_id_if_needed(merchant_id), by the type of the method
set_merchant_id_if_needed(M, req, merchant_id) ==
    CASE M = "Request" -> RequestPaymentSetMerchantId(req, merchant_id)
      [] M = "Verify" -> VerifyPaymentSetMerchantId(req, merchant_id)
      [] M = "Unverified" -> UnverifiedRequestsSetMerchantId(req, merchant_id)

\* std::mem::take(&mut self.zarinpal): the handle leaves the request
into_future(req) == [req EXCEPT !.zarinpal = None]

\* a nested JSON object as a JSON value
JObj(o) == [t |-> "obj", n |-> 0, s |-> "", l |-> <<o>>]

\* Option<String> without skip_serializing_if: null or the string
SerializeOptionString(o) == IF o = None THEN JNull ELSE JStr(o.value)

\* Currency: a unit variant is serialized as its name
SerializeCurrency(c) == JStr(c)

\* a Metadata serializer that writes null for an unset field
SerializeMetadataWithNulls(m) ==
    [k \in MetadataFields |-> SerializeOptionString(m[k])]

\* Metadata: each of the four fields is skipped when it is None
SerializeMetadata(m) ==
    [k \in {f \in MetadataFields : m[f] # None} |-> JStr(m[k].value)]

\* Vec<Wage>: the elements in their order, each a Wage { iban, amount,
\* description }
SerializeWages(ws) ==
    JList([i \in 1..Len(ws) |->
              [iban |-> JStr(ws[i].iban), amount |-> JNum(ws[i].amount),
               description |-> JStr(ws[i].description)]])

\* RequestPayment: currency and wages are skipped when None, zarinpal is
\* never serialized
SerializeRequestPayment(req) ==
    LET always == [merchant_id |-> SerializeOptionString(req.merchant_id),
                   amount |-> JNum(req.amount),
                   callback_url |-> JStr(req.callback_url),
                   description |-> JStr(req.description),
                   metadata |-> JObj(SerializeMetadata(req.metadata))]
        withCurrency ==
            IF req.currency = None THEN always
            ELSE With(always, "currency", SerializeCurrency(req.currency.value))
    IN IF req.wages = None THEN withCurrency
       ELSE With(withCurrency, "wages", SerializeWages(req.wages.value))

\* VerifyPayment
SerializeVerifyPayment(req) ==
    [merchant_id |-> SerializeOptionString(req.merchant_id),
     amount |-> JNum(req.amount),
     authority |-> JStr(req.authority)]

\* UnverifiedRequests
SerializeUnverifiedRequests(req) ==
    [merchant_id |-> SerializeOptionString(req.merchant_id)]

\* .json(&method), by the type of the method
Serialize(M, req) ==
    CASE M = "Request" -> SerializeRequestPayment(req)
      [] M = "Verify" -> SerializeVerifyPayment(req)
      [] M = "Unverified" -> SerializeUnverifiedRequests(req)

-----------------------------------------------------------------------------
(* The merchant ids, requests, transport failures and response bodies the  *)
(* model feeds to a whole call.                                            *)

CanonicalId == "1344b5d4-0048-11e8-94db-005056a205be"
ValidMerchantIds ==
    {CanonicalId, "1344B5D4-0048-11E8-94DB-005056A205BE",
     "1344b5d4004811e894db005056a205be",
     "{1344b5d4-0048-11e8-94db-005056a205be}",
     "urn:uuid:1344b5d4-0048-11e8-94db-005056a205be"}
InvalidMerchantIds ==
    {"merchant_id", "", "xxxxxxxx-xxxx-xxxx-xxxx-xxxxxxxxxxxx",
     "1344b5d4-0048-11e8-94db-005056a205b"}
MerchantIds == ValidMerchantIds \cup InvalidMerchantIds

\* the merchant_id a caller may set on a request
ExplicitMerchantIds == {None, Some("explicit-merchant-id")}
Currencies == {None, Some("IRR"), Some("IRT")}
Metadatas ==
    LET value(f) ==
            CASE f = "mobile" -> "09121234567"
              [] f = "email" -> "payer@example.com"
              [] f = "order_id" -> "order-1"
              [] f = "card_pan" -> "5022291000000000"
    IN {[f \in MetadataFields |-> IF f \in set THEN Some(value(f)) ELSE None] :
           set \in SUBSET MetadataFields}
WagesInputs ==
    LET wage1 == RequestWage("IR130570028780010957775103", 1000, "first")
        wage2 == RequestWage("IR670170000000352965862009", 5000, "second")
    IN {None, Some(<<>>), Some(<<wage1, wage2>>), Some(<<wage2, wage1>>)}

\* builders that build without .zarinpal(&zarinpal)
RequestsWithoutClient(M) ==
    CASE M = "Request" ->
            {RequestPayment(None, None, 10000, "example.com", "...", md, None, None) :
                md \in Metadatas}
      [] M = "Verify" ->
            {VerifyPayment(None, 10000, "A00000000000000000000000000217885159", None)}
      [] M = "Unverified" -> {UnverifiedRequests(None, None)}

\* what the builders build; .zarinpal(&zarinpal) is required of all three
Requests(M) ==
    LET handle == Some("&zarinpal")
    IN CASE M = "Request" ->
               {RequestPayment(id, c, 10000, "example.com", "...", md, w, handle) :
                   id \in ExplicitMerchantIds, c \in Currencies,
                   md \in Metadatas, w \in WagesInputs}
         [] M = "Verify" ->
               {VerifyPayment(id, 10000, "A00000000000000000000000000217885159", handle) :
                   id \in ExplicitMerchantIds}
         [] M = "Unverified" ->
               {UnverifiedRequests(id, handle) : id \in ExplicitMerchantIds}

\* the ways the POST can fail before a response is there
TransportFailures == {"connection refused", "timed out"}

\* a few response bodies of each kind
SampleEnvelopes(M) ==
    LET object ==
            CASE M = "Request" -> RequestObject(100, "Merchant", 100)
              [] M = "Verify" -> VerifyObject(101)
              [] M = "Unverified" -> UnverifiedObject("100", <<WireAuthority1>>)
    IN {Envelope(d, e) :
           d \in {SlotArray(0), Missing, SlotOther("string"), SlotObject(object),
                  SlotObject(Without(object, "code"))},
           e \in {SlotArray(0),
                  SlotObject(ErrorObject(-9, <<Entry("merchant_id", "a")>>))}}

-----------------------------------------------------------------------------
(* The taxonomy: a wire integer is deserialized, the code serialized, and  *)
(* the serialized integer deserialized again.                              *)

RcIdle ==
    /\ rcPc = "idle"
    /\ rcValue = 0
    /\ rcCode = NoCode
    /\ rcWire = 0
    /\ rcBack = NoCode
    /\ rcPrev = <<>>

RcInit ==
    /\ rcPc = "start"
    /\ rcValue \in WireRange
    /\ rcCode = NoCode
    /\ rcWire = 0
    /\ rcBack = NoCode
    /\ rcPrev = <<>>

\* impl Deserialize for ResultCode: Ok(i64::deserialize(deserializer)?.into())
RcDeserialize ==
    /\ rcPc = "start"
    /\ rcCode' = FromI64(rcValue)
    /\ rcPc' = "decoded"
    /\ UNCHANGED <<rcValue, rcWire, rcBack, rcPrev, vVars, sVars, cVars, xVars>>

\* impl Serialize for ResultCode: serializer.serialize_i64((*self).into())
RcSerialize ==
    /\ rcPc = "decoded"
    /\ rcWire' = ToI64(rcCode)
    /\ rcPc' = "encoded"
    /\ UNCHANGED <<rcValue, rcCode, rcBack, rcPrev, vVars, sVars, cVars, xVars>>

\* the serialized integer is deserialized again
RcDeserializeAgain ==
    /\ rcPc = "encoded"
    /\ rcBack' = FromI64(rcWire)
    /\ rcPc' = "reparsed"
    /\ UNCHANGED <<rcValue, rcCode, rcWire, rcPrev, vVars, sVars, cVars, xVars>>

\* the caller goes on to another wire integer
RcNextValue ==
    /\ rcPc = "reparsed"
    /\ rcPrev' = <<[value |-> rcValue, code |-> rcCode, wire |-> rcWire]>>
    /\ \E v \in WireRange : rcValue' = v
    /\ rcPc' = "start"
    /\ rcCode' = NoCode
    /\ rcWire' = 0
    /\ rcBack' = NoCode
    /\ UNCHANGED <<vVars, sVars, cVars, xVars>>

-----------------------------------------------------------------------------
(* deserialize_validations, one iteration of its for loop per step         *)

VIdle ==
    /\ vPc = "idle"
    /\ vWire = JNull
    /\ opening = <<>>
    /\ vIdx = 0
    /\ result = EmptyMap

VInit ==
    /\ vPc = "start"
    /\ vWire \in {JList(l) : l \in WireLists}
                 \cup {JNull, JList(<<[merchant_id |-> JNum(1)]>>)}
    /\ opening = <<>>
    /\ vIdx = 0
    /\ result = EmptyMap

\* let opening = Vec::<HashMap<String, String>>::deserialize(deserializer)?;
\* let mut result = HashMap::new();
VOpen ==
    /\ vPc = "start"
    /\ LET opened == DeserializeOpening(vWire)
       IN IF opened.tag = "Err"
          THEN vPc' = "failed" /\ UNCHANGED opening
          ELSE vPc' = "loop" /\ opening' = opened.value
    /\ UNCHANGED <<vWire, vIdx, result, rcVars, sVars, cVars, xVars>>

\* for item in opening { for (key, val) in item { ... } }
VLoop ==
    /\ vPc = "loop"
    /\ vIdx < Len(opening)
    /\ result' = MergeItem(result, opening[vIdx + 1])
    /\ vIdx' = vIdx + 1
    /\ UNCHANGED <<vPc, vWire, opening, rcVars, sVars, cVars, xVars>>

\* Ok(result)
VReturn ==
    /\ vPc = "loop"
    /\ vIdx = Len(opening)
    /\ vPc' = "done"
    /\ UNCHANGED <<vWire, opening, vIdx, result, rcVars, sVars, cVars, xVars>>

-----------------------------------------------------------------------------
(* The client and the request of a call: Zarinpal::new, the builders and   *)
(* the head of ZarinpalClient::send up to the POST                         *)

\* no client yet
CStart ==
    /\ newArg = NoValue
    /\ zarinpal = NoValue
    /\ built = NoValue
    /\ request = NoValue
    /\ url = NoValue
    /\ json = NoValue
    /\ posts = <<>>
    /\ response = NoValue

\* a call whose response has just arrived: the client of CanonicalId, the
\* request of method M built without a merchant id, defaulted, serialized
\* and posted once
CReceived(M) ==
    /\ newArg = CanonicalId
    /\ zarinpal = new(CanonicalId)
    /\ built \in {req \in Requests(M) :
                    /\ req.merchant_id = None
                    /\ M = "Request" =>
                          /\ req.currency = None
                          /\ req.wages = None
                          /\ \A f \in MetadataFields : req.metadata[f] = None}
    /\ request = set_merchant_id_if_needed(M, built, zarinpal.value.merchant_id)
    /\ url = set_path(zarinpal.value.base_url, PATH(M))
    /\ json = Serialize(M, request)
    /\ posts = <<[url |-> url, json |-> json]>>
    /\ response = Ok("response")

\* Zarinpal::new(merchant_id)
New ==
    /\ pc = "start"
    /\ \E id \in MerchantIds :
          /\ newArg' = id
          /\ zarinpal' = new(id)
          /\ pc' = IF new(id).tag = "Err" THEN "failed" ELSE "constructed"
    /\ UNCHANGED <<built, request, url, json, posts, response>>
    /\ UNCHANGED <<method, body, decoded, outcome, inspected, alreadyVerified>>
    /\ UNCHANGED <<rcVars, vVars, xVars>>

\* Zarinpal::new_with_client(merchant_id, client)
NewWithClient ==
    /\ pc = "start"
    /\ \E id \in MerchantIds :
          /\ newArg' = id
          /\ zarinpal' = new_with_client(id, "custom client")
          /\ pc' = IF new_with_client(id, "custom client").tag = "Err"
                   THEN "failed" ELSE "constructed"
    /\ UNCHANGED <<built, request, url, json, posts, response>>
    /\ UNCHANGED <<method, body, decoded, outcome, inspected, alreadyVerified>>
    /\ UNCHANGED <<rcVars, vVars, xVars>>

\* <M>::builder() ... .zarinpal(&zarinpal).build()
Build ==
    /\ pc = "constructed"
    /\ \E M \in Methods : \E req \in Requests(M) :
          /\ method' = M
          /\ built' = req
          /\ request' = req
    /\ pc' = "built"
    /\ UNCHANGED <<newArg, zarinpal, url, json, posts, response>>
    /\ UNCHANGED <<body, decoded, outcome, inspected, alreadyVerified>>
    /\ UNCHANGED <<rcVars, vVars, xVars>>

\* zarinpal.send(built)
CallSend ==
    /\ pc = "built"
    /\ pc' = "called"
    /\ UNCHANGED <<cVars, rcVars, vVars, xVars>>
    /\ UNCHANGED <<method, body, decoded, outcome, inspected, alreadyVerified>>

\* built.await: into_future takes the handle, unwraps it and calls send;
\* the unwrap panics when there is no handle
IntoFuture ==
    /\ pc = "built"
    /\ request' = into_future(request)
    /\ pc' = IF request.zarinpal = None THEN "panicked" ELSE "called"
    /\ UNCHANGED <<newArg, zarinpal, built, url, json, posts, response>>
    /\ UNCHANGED <<method, body, decoded, outcome, inspected, alreadyVerified>>
    /\ UNCHANGED <<rcVars, vVars, xVars>>

\* let mut url = self.base_url().clone(); url.set_path(M::PATH);
SendSetPath ==
    /\ pc = "called"
    /\ url' = set_path(zarinpal.value.base_url, PATH(method))
    /\ pc' = "url"
    /\ UNCHANGED <<newArg, zarinpal, built, request, json, posts, response>>
    /\ UNCHANGED <<method, body, decoded, outcome, inspected, alreadyVerified>>
    /\ UNCHANGED <<rcVars, vVars, xVars>>

\* a send that serializes first and has not run the hook by then
SendSetMerchantIdSkipped ==
    /\ pc = "url"
    /\ pc' = "defaulted"
    /\ UNCHANGED <<cVars, rcVars, vVars, xVars>>
    /\ UNCHANGED <<method, body, decoded, outcome, inspected, alreadyVerified>>

\* method.set_merchant_id_if_needed(self.merchant_id().clone());
SendSetMerchantId ==
    /\ pc = "url"
    /\ request' = set_merchant_id_if_needed(method, request,
                                            zarinpal.value.merchant_id)
    /\ pc' = "defaulted"
    /\ UNCHANGED <<newArg, zarinpal, built, url, json, posts, response>>
    /\ UNCHANGED <<method, body, decoded, outcome, inspected, alreadyVerified>>
    /\ UNCHANGED <<rcVars, vVars, xVars>>

\* self.client().post(url).json(&method)
SendJson ==
    /\ pc = "defaulted"
    /\ json' = Serialize(method, request)
    /\ pc' = "serialized"
    /\ UNCHANGED <<newArg, zarinpal, built, request, url, posts, response>>
    /\ UNCHANGED <<method, body, decoded, outcome, inspected, alreadyVerified>>
    /\ UNCHANGED <<rcVars, vVars, xVars>>

\* a send that reports every transport failure as the same error
PostResultReinterpreted(r) ==
    IF r.tag = "Err" THEN Err(HttpClientError("request failed")) ELSE NoValue

\* what send returns when .send().await gave r: the `?` returns the
\* transport failure as Error::HttpClientError, a response goes on
PostResult(r) ==
    IF r.tag = "Err" THEN Err(HttpClientError(r.error)) ELSE NoValue

\* a send that posts once more when the transport failed
SendPostRetrying ==
    /\ pc = "serialized"
    /\ \E r \in {Err(f) : f \in TransportFailures} \cup {Ok("response")} :
          /\ response' = r
          /\ posts' = IF r.tag = "Err"
                      THEN posts \o <<[url |-> url, json |-> json],
                                      [url |-> url, json |-> json]>>
                      ELSE Append(posts, [url |-> url, json |-> json])
          /\ outcome' = PostResult(r)
          /\ IF r.tag = "Err"
             THEN pc' = "returned" /\ UNCHANGED body
             ELSE pc' = "received" /\ body' \in SampleEnvelopes(method)
    /\ UNCHANGED <<newArg, zarinpal, built, request, url, json>>
    /\ UNCHANGED <<method, decoded, inspected, alreadyVerified>>
    /\ UNCHANGED <<rcVars, vVars, xVars>>

\* .send().await?: the one POST of the call; the transport fails, or a
\* response arrives
SendPost ==
    /\ pc = "serialized"
    /\ \E r \in {Err(f) : f \in TransportFailures} \cup {Ok("response")} :
          /\ response' = r
          /\ posts' = Append(posts, [url |-> url, json |-> json])
          /\ outcome' = PostResult(r)
          /\ IF r.tag = "Err"
             THEN pc' = "returned" /\ UNCHANGED body
             ELSE pc' = "received" /\ body' \in SampleEnvelopes(method)
    /\ UNCHANGED <<newArg, zarinpal, built, request, url, json>>
    /\ UNCHANGED <<method, decoded, inspected, alreadyVerified>>
    /\ UNCHANGED <<rcVars, vVars, xVars>>

-----------------------------------------------------------------------------
(* ZarinpalClient::send from the received body on, and the caller's use of *)
(* the success payload                                                     *)

\* before the client is constructed
SStart ==
    /\ pc = "start"
    /\ method = "none"
    /\ body = EmptyObject
    /\ decoded = NoValue
    /\ outcome = NoValue
    /\ inspected = NoValue
    /\ alreadyVerified = NoValue

SIdle ==
    /\ pc = "idle"
    /\ method = "Request"
    /\ body = EmptyObject
    /\ decoded = NoValue
    /\ outcome = NoValue
    /\ inspected = NoValue
    /\ alreadyVerified = NoValue

SInit ==
    /\ pc = "received"
    /\ method \in Methods
    /\ body \in Envelopes(method)
    /\ decoded = NoValue
    /\ outcome = NoValue
    /\ inspected = NoValue
    /\ alreadyVerified = NoValue

\* .json::<crate::results::__private::ApiResult<M::Result>>().await
SendDecode ==
    /\ pc = "received"
    /\ decoded' = DeserializeApiResult(method, body)
    /\ pc' = "decoded"
    /\ UNCHANGED <<method, body, outcome, inspected, alreadyVerified, rcVars, vVars, cVars, xVars>>

\* result.map(Into::into)?.map_err(|e| e.into())
SendResolve ==
    /\ pc = "decoded"
    /\ outcome' = SendResult(decoded)
    /\ pc' = IF SendResult(decoded) = Panic THEN "panicked" ELSE "returned"
    /\ UNCHANGED <<method, body, decoded, inspected, alreadyVerified, rcVars, vVars, cVars, xVars>>

\* the caller reads code() of the payload it was given
CallCode ==
    /\ pc = "returned"
    /\ outcome.tag = "Ok"
    /\ inspected' = code(method, outcome.value)
    /\ pc' = IF code(method, outcome.value) = Panic THEN "panicked" ELSE "inspected"
    /\ UNCHANGED <<method, body, decoded, outcome, alreadyVerified, rcVars, vVars, cVars, xVars>>

\* the caller of a verification asks already_verified() of its payload
CallAlreadyVerified ==
    /\ pc \in {"returned", "inspected"}
    /\ method = "Verify"
    /\ outcome.tag = "Ok"
    /\ alreadyVerified = NoValue
    /\ alreadyVerified' = Ok(already_verified(outcome.value))
    /\ UNCHANGED <<pc, method, body, decoded, outcome, inspected, rcVars, vVars, cVars, xVars>>

-----------------------------------------------------------------------------
(* Several calls of ZarinpalClient::send in flight on one client.  send    *)
(* borrows the client as &self and owns `method`; url, result and the      *)
(* response are locals of the call.  The calls take their steps in any     *)
(* order.                                                                  *)

CallIds == 1..NumCalls

\* the locals of a call that send has just been handed
NewCall(M, req) ==
    [pc |-> "called", method |-> M, built |-> req, request |-> req,
     url |-> NoValue, json |-> NoValue, posts |-> <<>>, response |-> NoValue,
     body |-> EmptyObject, decoded |-> NoValue, outcome |-> NoValue]

\* no call in flight
XIdle ==
    /\ calls = <<>>
    /\ shared = NoValue
    /\ authorities = <<>>
    /\ verifyPosts = <<>>
    /\ verifyResults = <<>>
    /\ hookCalls = <<>>

\* NumCalls requests handed to send on the client of CanonicalId
XInit ==
    /\ shared = new(CanonicalId)
    /\ calls \in [CallIds -> UNION {{NewCall(M, req) : req \in Requests(M)} :
                                       M \in {"Verify", "Unverified"}}]
    /\ authorities = <<>>
    /\ verifyPosts = <<>>
    /\ verifyResults = <<>>
    /\ hookCalls = <<>>

\* let mut url = self.base_url().clone(); url.set_path(M::PATH);
KSetPath(i) ==
    /\ calls[i].pc = "called"
    /\ calls' = [calls EXCEPT
                    ![i].url = set_path(shared.value.base_url, PATH(calls[i].method)),
                    ![i].pc = "url"]
    /\ UNCHANGED <<shared, aVars, hookCalls, rcVars, vVars, cVars, sVars>>

\* a hook that also stores the merchant id of the request in the client
KSetMerchantIdShared(i) ==
    /\ calls[i].pc = "url"
    /\ calls' = [calls EXCEPT
                    ![i].request = set_merchant_id_if_needed(
                                       calls[i].method, calls[i].request,
                                       shared.value.merchant_id),
                    ![i].pc = "defaulted"]
    /\ shared' = IF calls[i].request.merchant_id = None THEN shared
                 ELSE [shared EXCEPT
                          !.value.merchant_id = calls[i].request.merchant_id.value]
    /\ UNCHANGED <<aVars, hookCalls, rcVars, vVars, cVars, sVars>>

\* method.set_merchant_id_if_needed(self.merchant_id().clone());
KSetMerchantId(i) ==
    /\ calls[i].pc = "url"
    /\ calls' = [calls EXCEPT
                    ![i].request = set_merchant_id_if_needed(
                                       calls[i].method, calls[i].request,
                                       shared.value.merchant_id),
                    ![i].pc = "defaulted"]
    /\ UNCHANGED <<shared, aVars, hookCalls, rcVars, vVars, cVars, sVars>>

\* self.client().post(url).json(&method)
KJson(i) ==
    /\ calls[i].pc = "defaulted"
    /\ calls' = [calls EXCEPT
                    ![i].json = Serialize(calls[i].method, calls[i].request),
                    ![i].pc = "serialized"]
    /\ UNCHANGED <<shared, aVars, hookCalls, rcVars, vVars, cVars, sVars>>

\* .send().await?: the transport fails, or a response arrives
KPost(i) ==
    /\ calls[i].pc = "serialized"
    /\ \E r \in {Err("timed out"), Ok("response")} :
       \E b \in IF r.tag = "Err" THEN {EmptyObject}
                ELSE {e \in SampleEnvelopes(calls[i].method) :
                         /\ "data" \in DOMAIN e
                         /\ \/ e["data"].shape = "array"
                            \/ /\ e["errors"].shape = "array"
                               /\ e["data"].shape = "object" =>
                                      "code" \in DOMAIN e["data"].obj} :
          calls' = [calls EXCEPT
                       ![i].posts = Append(calls[i].posts,
                                           [url |-> calls[i].url, json |-> calls[i].json]),
                       ![i].response = r,
                       ![i].body = b,
                       ![i].outcome = PostResult(r),
                       ![i].pc = IF r.tag = "Err" THEN "returned" ELSE "received"]
    /\ UNCHANGED <<shared, aVars, hookCalls, rcVars, vVars, cVars, sVars>>

\* .json::<crate::results::__private::ApiResult<M::Result>>().await
KDecode(i) ==
    /\ calls[i].pc = "received"
    /\ calls' = [calls EXCEPT
                    ![i].decoded = DeserializeApiResult(calls[i].method, calls[i].body),
                    ![i].pc = "decoded"]
    /\ UNCHANGED <<shared, aVars, hookCalls, rcVars, vVars, cVars, sVars>>

\* result.map(Into::into)?.map_err(|e| e.into())
KResolve(i) ==
    /\ calls[i].pc = "decoded"
    /\ calls' = [calls EXCEPT
                    ![i].outcome = SendResult(calls[i].decoded),
                    ![i].pc = IF SendResult(calls[i].decoded) = Panic
                              THEN "panicked" ELSE "returned"]
    /\ UNCHANGED <<shared, aVars, hookCalls, rcVars, vVars, cVars, sVars>>

-----------------------------------------------------------------------------
(* results/unverified.rs and extensions.rs: the entries of an unverified   *)
(* list verified one after another, each by Authorities::verify            *)

\* a verify_payment that leaves the amount of the entry out
verify_paymentWithoutAmount(authority, amount) ==
    VerifyPayment(None, 0, authority, Some("&zarinpal"))

\* ZarinpalSendExtension::verify_payment(authority, amount) ... .build()
verify_payment(authority, amount) ==
    VerifyPayment(None, amount, authority, Some("&zarinpal"))

\* the entries of a decoded list and the client handed to verify
AInit ==
    /\ shared \in {new(CanonicalId),
                   new_with_client("1344B5D4-0048-11E8-94DB-005056A205BE",
                                   "custom client")}
    /\ calls = <<>>
    /\ authorities \in UNION {[1..n -> {Authorities(WireAuthority1),
                                        Authorities(WireAuthority2)}] :
                                 n \in 0..MaxAuthorities}
    /\ verifyPosts = <<>>
    /\ verifyResults = <<>>
    /\ hookCalls = <<>>

\* request.verify(&zarinpal).await on the next entry of the list:
\* verify_payment(self.authority(), self.amount()).build().await, which is
\* into_future and then the whole of send
AuthoritiesVerify ==
    /\ Len(verifyResults) < Len(authorities)
    /\ LET entry == authorities[Len(verifyResults) + 1]
           sent == set_merchant_id_if_needed(
                       "Verify",
                       into_future(verify_payment(entry.authority, entry.amount)),
                       shared.value.merchant_id)
       IN /\ verifyPosts' =
                Append(verifyPosts,
                       [url |-> set_path(shared.value.base_url, PATH("Verify")),
                        json |-> Serialize("Verify", sent)])
          /\ \E r \in {Err("timed out"), Ok("response")} :
             \E b \in {Envelope(SlotObject(VerifyObject(100)), SlotArray(0)),
                       Envelope(SlotArray(0),
                                SlotObject(ErrorObject(-54,
                                               <<Entry("amount", "a")>>)))} :
                verifyResults' =
                    Append(verifyResults,
                           IF r.tag = "Err" THEN PostResult(r)
                           ELSE SendResult(DeserializeApiResult("Verify", b)))
    /\ UNCHANGED <<authorities, calls, shared, hookCalls, rcVars, vVars, cVars, sVars>>

-----------------------------------------------------------------------------
(* ApiMethod::set_merchant_id_if_needed called again and again on one      *)
(* request, with any ids                                                   *)

HookIds == {CanonicalId, "explicit-merchant-id", "another-merchant-id"}

\* a request as one of the builders built it, the hook not yet called
HInit ==
    /\ pc = "hook"
    /\ method \in Methods
    /\ built \in Requests(method)
    /\ request = built
    /\ hookCalls = <<>>
    /\ newArg = NoValue /\ zarinpal = NoValue /\ url = NoValue
    /\ json = NoValue /\ posts = <<>> /\ response = NoValue
    /\ body = EmptyObject /\ decoded = NoValue /\ outcome = NoValue
    /\ inspected = NoValue /\ alreadyVerified = NoValue
    /\ calls = <<>> /\ shared = NoValue
    /\ authorities = <<>> /\ verifyPosts = <<>> /\ verifyResults = <<>>

\* method.set_merchant_id_if_needed(id)
HookCall ==
    /\ pc = "hook"
    /\ Len(hookCalls) < MaxHookCalls
    /\ \E id \in HookIds :
          /\ request' = set_merchant_id_if_needed(method, request, id)
          /\ hookCalls' = Append(hookCalls, id)
    /\ UNCHANGED <<newArg, zarinpal, built, url, json, posts, response>>
    /\ UNCHANGED <<sVars, rcVars, vVars, calls, shared, aVars>>

-----------------------------------------------------------------------------
(* Specifications                                                          *)

\* the taxonomy alone
CodeInit == RcInit /\ VIdle /\ SIdle /\ CStart /\ XIdle
CodeNext == RcDeserialize \/ RcSerialize \/ RcDeserializeAgain \/ RcNextValue
CodeSpec == CodeInit /\ [][CodeNext]_vars

\* the validation-list merge alone
ValidationsInit == RcIdle /\ VInit /\ SIdle /\ CStart /\ XIdle
ValidationsNext == VOpen \/ VLoop \/ VReturn
ValidationsSpec == ValidationsInit /\ [][ValidationsNext]_vars

\* the decoding of a received envelope
Init == RcIdle /\ VIdle /\ SInit /\ CReceived(method) /\ XIdle
Next == SendDecode \/ SendResolve \/ CallCode \/ CallAlreadyVerified
Spec == Init /\ [][Next]_vars

\* a whole call: the client is constructed, a request is built and sent,
\* and the caller reads the payload
CallInit == RcIdle /\ VIdle /\ SStart /\ CStart /\ XIdle
CallNext ==
    \/ New \/ NewWithClient \/ Build \/ CallSend \/ IntoFuture
    \/ SendSetPath \/ SendSetMerchantId \/ SendJson \/ SendPost
    \/ SendDecode \/ SendResolve \/ CallCode \/ CallAlreadyVerified
CallSpec == CallInit /\ [][CallNext]_vars

\* NumCalls calls in flight on one client
ConcurrentInit == RcIdle /\ VIdle /\ SIdle /\ CStart /\ XInit
ConcurrentNext ==
    \E i \in CallIds :
        \/ KSetPath(i) \/ KSetMerchantId(i) \/ KJson(i)
        \/ KPost(i) \/ KDecode(i) \/ KResolve(i)
ConcurrentSpec == ConcurrentInit /\ [][ConcurrentNext]_vars

\* the entries of an unverified list verified in list order
VerifyAllInit == RcIdle /\ VIdle /\ SIdle /\ CStart /\ AInit
VerifyAllNext == AuthoritiesVerify
VerifyAllSpec == VerifyAllInit /\ [][VerifyAllNext]_vars

\* the hook alone
HookInit == RcIdle /\ VIdle /\ HInit
HookNext == HookCall
HookSpec == HookInit /\ [][HookNext]_vars

-----------------------------------------------------------------------------
(* Properties of the result-code taxonomy, checked under CodeSpec          *)

\* the keys of the decode table
NamedWireValues ==
    {-9, -10, -11, -12, -15, -16, -17, 100, 101} \cup (-40 .. -30) \cup (-54 .. -50)

\* C2: for every wire integer w the decode table maps to a named variant,
\* encode(decode(w)) = w.
C2_NamedWireRoundTrip ==
    (rcPc \in {"encoded", "reparsed"} /\ rcValue \in NamedWireValues)
        => rcWire = rcValue

\* C3: for every named variant c, decode(encode(c)) = c.
C3_NamedCodeRoundTrip ==
    (rcPc = "reparsed" /\ rcCode.name # "Unknown") => rcBack = rcCode

\* C4: for every integer v that is not a key of the decode table,
\* decode(v) = Unknown(v) and encode(decode(v)) = v; an unlisted integer is
\* never mapped to a named variant.
C4_UnlistedDecodesToUnknown ==
    (rcPc \in {"decoded", "encoded", "reparsed"} /\ rcValue \notin NamedWireValues)
        => /\ rcCode = Unknown(rcValue)
           /\ rcPc \in {"encoded", "reparsed"} => rcWire = rcValue

\* C4 witness: an unlisted integer has been decoded and encoded again
C4_Witness ==
    /\ rcPc = "encoded"
    /\ rcValue = 30
    /\ rcCode = Unknown(30)
    /\ rcWire = 30

\* C5: the mapping is a bijection: two round trips that encode to the same
\* integer decoded the same code, and two that decoded the same code started
\* from the same integer.
C5_MappingIsBijection ==
    (rcPc \in {"encoded", "reparsed"} /\ rcPrev # <<>>)
        => /\ rcPrev[1].wire = rcWire => rcPrev[1].code = rcCode
           /\ rcPrev[1].code = rcCode => rcPrev[1].value = rcValue

-----------------------------------------------------------------------------
(* Properties of the validation-list merge, checked under ValidationsSpec  *)

\* the values the entries of l give for field f, in the order of l
ValuesOf(l, f) ==
    LET sel == SelectSeq(l, LAMBDA item : f \in DOMAIN item)
    IN [i \in 1..Len(sel) |-> sel[i][f].s]
\* the field names that occur in l
FieldsOf(l) == UNION {DOMAIN l[i] : i \in 1..Len(l)}

RECURSIVE TotalLen(_, _)
TotalLen(res, keys) ==
    IF keys = {} THEN 0
    ELSE LET k == CHOOSE x \in keys : TRUE
         IN Len(res[k]) + TotalLen(res, keys \ {k})

\* C10: the decoded validations map each field name that occurs to the list
\* of all its values in arrival order; no entry is dropped or duplicated and
\* no other key appears.  Stated for every prefix the loop has consumed.
C10_ValidationsMerge ==
    vPc \in {"loop", "done"}
        => LET seen == SubSeq(vWire.l, 1, vIdx)
           IN /\ vPc = "done" => vIdx = Len(vWire.l)
              /\ DOMAIN result = FieldsOf(seen)
              /\ \A f \in DOMAIN result : result[f] = ValuesOf(seen, f)
              /\ TotalLen(result, DOMAIN result) = vIdx

\* C10 witness: the list [{merchant_id: a}, {merchant_id: b}, {amount: c}]
\* has been merged
C10_Witness ==
    /\ vPc = "done"
    /\ vWire = JList(<<Entry("merchant_id", "a"), Entry("merchant_id", "b"),
                       Entry("amount", "c")>>)
    /\ result = [merchant_id |-> <<"a", "b">>, amount |-> <<"c">>]

-----------------------------------------------------------------------------
(* Properties of the envelope decoder, checked under Spec                  *)

HasSlot(k) == k \in DOMAIN body
IsArraySlot(k) == HasSlot(k) /\ body[k].shape = "array"
IsObjectSlot(k) == HasSlot(k) /\ body[k].shape = "object"
\* absent on the wire: an array, or the key is missing
IsAbsentSlot(k) == ~HasSlot(k) \/ IsArraySlot(k)
Resolved == pc \in {"returned", "inspected", "panicked"}

\* C1: when both data and errors are absent, send returns an error value;
\* it does not panic and does not return a success.
C1_BothAbsentIsAnError ==
    (Resolved /\ IsAbsentSlot("data") /\ IsAbsentSlot("errors"))
        => outcome.tag = "Err"

\* C6: when data is an object that decodes as the payload, the outcome is
\* that payload whatever errors holds: an array, an object, valid or not, or
\* a missing key.
C6_SuccessPrecedence ==
    (/\ Resolved
     /\ IsObjectSlot("data")
     /\ DeserializeResult(method, body["data"].obj).tag = "Ok"
     /\ (~HasSlot("errors") \/ IsArraySlot("errors") \/ IsObjectSlot("errors")))
        => outcome = DeserializeResult(method, body["data"].obj)

\* C7: when data is an array and errors is a populated error object, send
\* returns the ApiError of the wire: the decoded code, the message and the
\* merged validations.
C7_ErrorBranch ==
    (/\ Resolved
     /\ IsArraySlot("data")
     /\ IsObjectSlot("errors")
     /\ body["errors"].obj \in ValidErrorObjects)
        => LET e == body["errors"].obj
           IN /\ outcome.tag = "Err"
              /\ outcome.error.variant = "ZarinpalApiError"
              /\ outcome.error.api.code = FromI64(e["code"].n)
              /\ outcome.error.api.message = e["message"].s
              /\ DOMAIN outcome.error.api.validations = FieldsOf(e["validations"].l)
              /\ \A f \in FieldsOf(e["validations"].l) :
                    outcome.error.api.validations[f] = ValuesOf(e["validations"].l, f)

\* C8: a data object with valid fields and errors = [] decodes to the success
\* payload whose fields are the wire fields; for Verify a missing wages key
\* gives no wages and a wages list gives a list of the same length and order.
C8_SuccessPayload ==
    (/\ Resolved
     /\ IsObjectSlot("data")
     /\ body["data"].obj \in ValidObjects(method)
     /\ HasSlot("errors")
     /\ body["errors"] = SlotArray(0))
        => LET o == body["data"].obj
               p == outcome.value
           IN /\ outcome.tag = "Ok"
              /\ p.message = o["message"].s
              /\ method = "Request" =>
                    /\ p.code = FromI64(o["code"].n)
                    /\ o["code"].n = 100 => p.code = Named("Success")
                    /\ p.authority = o["authority"].s
                    /\ p.fee_type = o["fee_type"].s
                    /\ p.fee = o["fee"].n
              /\ method = "Verify" =>
                    /\ p.code = FromI64(o["code"].n)
                    /\ o["code"].n = 101 => p.code = Named("Verified")
                    /\ p.card_hash = o["card_hash"].s
                    /\ p.card_pan = o["card_pan"].s
                    /\ p.ref_id = o["ref_id"].n
                    /\ p.fee_type = o["fee_type"].s
                    /\ p.fee = o["fee"].n
                    /\ "wages" \notin DOMAIN o => p.wages = None
                    /\ ("wages" \in DOMAIN o /\ o["wages"].t = "list") =>
                          /\ p.wages.tag = "Some"
                          /\ Len(p.wages.value) = Len(o["wages"].l)
                          /\ \A i \in 1..Len(o["wages"].l) :
                                /\ p.wages.value[i].iban = o["wages"].l[i]["iban"].s
                                /\ p.wages.value[i].amount = o["wages"].l[i]["amount"].n
                                /\ p.wages.value[i].description
                                      = o["wages"].l[i]["description"].s
              /\ method = "Unverified" =>
                    /\ p.code = o["code"].s
                    /\ Len(p.authorities) = Len(o["authorities"].l)
                    /\ \A i \in 1..Len(p.authorities) :
                          p.authorities[i].authority
                              = o["authorities"].l[i]["authority"].s
                    /\ (pc = "inspected" /\ o["code"].s = "100")
                          => inspected = Ok(Named("Success"))

\* C8 witness: a Verify payload with two wages has been returned
C8_Witness ==
    /\ pc = "returned"
    /\ method = "Verify"
    /\ body = Envelope(SlotObject(With(VerifyObject(100), "wages",
                                       JList(<<WireWage1, WireWage2>>))),
                       SlotArray(0))
    /\ outcome.tag = "Ok"
    /\ Len(outcome.value.wages.value) = 2

\* C9: a slot that is an array of any length decodes to absent, a slot that is
\* an object decodes to present and is decoded as the expected type (failing
\* to decode it is a decode error), every other shape is a decode error.
SlotDecodes(k) ==
    \/ ~HasSlot(k)
    \/ IsArraySlot(k)
    \/ /\ IsObjectSlot(k)
       /\ IF k = "data" THEN DeserializeResult(method, body[k].obj).tag = "Ok"
          ELSE DeserializeApiError(body[k].obj).tag = "Ok"
C9_ShapeSensingDecode ==
    pc # "received"
        => IF SlotDecodes("data") /\ SlotDecodes("errors")
           THEN /\ decoded.tag = "Ok"
                /\ \A k \in {"data", "errors"} :
                      /\ IsArraySlot(k) => decoded.value[k] = WiredNone
                      /\ IsObjectSlot(k) => decoded.value[k].tag = "Some"
           ELSE decoded.tag = "Err"

-----------------------------------------------------------------------------
(* Properties of a whole call, checked under CallSpec                      *)

\* send has run the merchant-id hook of the call
Defaulted ==
    pc \in {"defaulted", "serialized", "received", "decoded", "returned",
            "inspected", "panicked"}
\* the POST of the call is on the wire
Posted == pc \in {"received", "decoded", "returned", "inspected", "panicked"}

\* C11: for each of the three requests, once send has run the hook the
\* merchant_id of the request is the value the caller set, or the merchant
\* id of the client when the caller set none; the hook changes the field
\* exactly when it was unset, and the body on the wire carries that value.
C11_MerchantIdDefaulting ==
    Defaulted =>
        /\ request.merchant_id =
              IF built.merchant_id = None
              THEN Some(zarinpal.value.merchant_id)
              ELSE built.merchant_id
        /\ (request.merchant_id # built.merchant_id) <=> (built.merchant_id = None)
        /\ Posted =>
              posts[1].json["merchant_id"] =
                  JStr(IF built.merchant_id = None
                       THEN zarinpal.value.merchant_id
                       ELSE built.merchant_id.value)
C11_Witness ==
    /\ Posted
    /\ method = "Verify"
    /\ built.merchant_id = None
    /\ newArg = "1344B5D4-0048-11E8-94DB-005056A205BE"
    /\ request.merchant_id = Some(CanonicalId)

-----------------------------------------------------------------------------
(* Properties of the Unverified and Verify payloads, checked under Spec    *)

\* code strings that are not the decimal form of an integer
NonNumericCodes == {"abc", "", "-"}
\* the data slot holds an Unverified object whose code is one of them
HasNonNumericCode ==
    /\ method = "Unverified"
    /\ IsObjectSlot("data")
    /\ body["data"].obj \in
          {UnverifiedObject(cs, a) : cs \in NonNumericCodes, a \in WireAuthorities}

\* C12: an Unverified response whose code is a non-numeric string is a
\* decode error: send returns an error value of the decode kind, and no
\* call of code() panics.
C12_NonNumericCodeIsDecodeError ==
    (Resolved /\ HasNonNumericCode)
        => /\ outcome = Err(HttpClientError(DecodeError))
           /\ inspected # Panic

\* code strings that are the decimal form of an integer, with that integer
NumericCodes == {<<"100", 100>>, <<"101", 101>>, <<"-9", 0 - 9>>, <<"+100", 100>>}

\* C13: when the code of an Unverified payload is the decimal form of the
\* integer n, code() gives the code the taxonomy decodes n to; "100" gives
\* Success.
C13_NumericCodeString ==
    (pc \in {"inspected", "panicked"} /\ method = "Unverified" /\ outcome.tag = "Ok")
        => \A nc \in NumericCodes :
              outcome.value.code = nc[1]
                  => /\ inspected = Ok(FromI64(nc[2]))
                     /\ nc[1] = "100" => inspected = Ok(Named("Success"))
C13_Witness ==
    /\ pc = "inspected"
    /\ method = "Unverified"
    /\ body["data"].obj["code"] = JStr("-9")
    /\ inspected = Ok(Named("Validation"))

\* C14: already_verified() of a decoded Verify payload is true exactly when
\* the code on the wire is 101 (Verified); 100 and every other code give
\* false.
C14_AlreadyVerified ==
    alreadyVerified # NoValue
        => /\ method = "Verify"
           /\ alreadyVerified = Ok(body["data"].obj["code"].n = 101)
           /\ alreadyVerified = Ok(outcome.value.code = Named("Verified"))
C14_Witness ==
    /\ alreadyVerified = Ok(TRUE)
    /\ body["data"].obj["code"] = JNum(101)
    /\ outcome.value.code = Named("Verified")

-----------------------------------------------------------------------------
(* Properties of the POST and of the construction, checked under CallSpec  *)

\* the ways a call fails: the transport, the decoding, an ApiError
TransportFailed == response # NoValue /\ response.tag = "Err"
DecodeFailed == decoded # NoValue /\ decoded.tag = "Err"
ApiErrorDecoded ==
    /\ decoded # NoValue
    /\ decoded.tag = "Ok"
    /\ decoded.value.data.tag = "None"
    /\ decoded.value.errors.tag = "Some"

\* C15: a call of send puts exactly one POST on the wire, the one of its
\* url and body: none before the POST step, one from then on, whatever the
\* outcome; after a transport failure, a decode failure or an ApiError the
\* call has returned an error value and still posted once.
C15_ExactlyOnePost ==
    /\ ~Posted => posts = <<>>
    /\ Posted => posts = <<[url |-> url, json |-> json]>>
    /\ (Resolved /\ (TransportFailed \/ DecodeFailed \/ ApiErrorDecoded))
          => /\ pc = "returned"
             /\ outcome.tag = "Err"
             /\ Len(posts) = 1
C15_Witness ==
    /\ pc = "returned"
    /\ TransportFailed
    /\ Len(posts) = 1
    /\ outcome.tag = "Err"

\* C16: new and new_with_client fail, with the uuid error, exactly when the
\* merchant id is not a valid uuid; a construction puts nothing on the
\* wire, and nothing is ever sent through a client whose construction
\* failed.
C16_ConstructionValidates ==
    /\ pc \in {"start", "constructed", "failed", "built"} => posts = <<>>
    /\ zarinpal # NoValue =>
          /\ (zarinpal.tag = "Err") <=> (newArg \in InvalidMerchantIds)
          /\ (zarinpal.tag = "Ok") <=> (newArg \in ValidMerchantIds)
          /\ zarinpal.tag = "Err" =>
                /\ zarinpal = Err("uuid::Error")
                /\ pc = "failed"
                /\ posts = <<>>
                /\ request = NoValue
          /\ zarinpal.tag = "Ok" => zarinpal.value.merchant_id = CanonicalId
C16_Witness ==
    /\ pc = "failed"
    /\ newArg = "xxxxxxxx-xxxx-xxxx-xxxx-xxxxxxxxxxxx"
    /\ zarinpal = Err("uuid::Error")
    /\ posts = <<>>

\* C17: when the transport fails the POST, send returns the HttpClientError
\* that wraps that very failure; nothing is decoded, and the outcome is
\* neither an ApiError nor a success.
C17_TransportFailure ==
    TransportFailed =>
        /\ pc = "returned"
        /\ outcome = Err(HttpClientError(response.error))
        /\ outcome.error.variant # "ZarinpalApiError"
        /\ outcome.tag # "Ok"
        /\ decoded = NoValue
        /\ inspected = NoValue
C17_Witness ==
    /\ pc = "returned"
    /\ response = Err("timed out")
    /\ outcome = Err(HttpClientError("timed out"))
    /\ decoded = NoValue

-----------------------------------------------------------------------------
(* Properties of a received body that does not decode, checked under Spec  *)

\* slot k is there and is neither an array nor an object
IsOtherShape(k) == HasSlot(k) /\ body[k].shape \in OtherShapes
\* the data slot is an object that lacks a required field of the payload,
\* or holds it with another type
IsBrokenPayload ==
    IsObjectSlot("data") /\ body["data"].obj \in BrokenObjects(method)

\* C18: a body with a slot that is neither array nor object, or with a data
\* object that lacks required fields of the payload, makes send return an
\* error value that is not an ApiError: never a success, never a panic.
C18_DecodeFailure ==
    (Resolved /\ (IsOtherShape("data") \/ IsOtherShape("errors") \/ IsBrokenPayload))
        => /\ pc = "returned"
           /\ outcome.tag = "Err"
           /\ outcome.error.variant = "HttpClientError"
           /\ outcome.error.http = DecodeError
C18_Witness ==
    /\ pc = "returned"
    /\ IsBrokenPayload
    /\ "code" \notin DOMAIN body["data"].obj
    /\ IsObjectSlot("errors")
    /\ body["errors"].obj \in ValidErrorObjects
    /\ outcome = Err(HttpClientError(DecodeError))

-----------------------------------------------------------------------------
(* Properties of the code of a success payload, checked under Spec         *)

\* the codes the documentation of RequestResult::code allows a success
SuccessCodes(M) ==
    IF M = "Verify"
    THEN {Ok(Named("Success")), Ok(Named("Verified"))}
    ELSE {Ok(Named("Success"))}

\* C19: the code() of a payload that send returned as a success is Success,
\* or Verified for a verification; no other code.
C19_SuccessPayloadCode ==
    (Resolved /\ outcome.tag = "Ok")
        => code(method, outcome.value) \in SuccessCodes(method)

-----------------------------------------------------------------------------
(* Properties of the body of a payment request, checked under CallSpec     *)

\* .json(&method) has serialized the request of the call
Serialized == pc = "serialized" \/ Posted
MetadataSet == {f \in MetadataFields : built.metadata[f] # None}

\* C20: the body of a RequestPayment has the key currency exactly when the
\* caller set one, as "IRR" or "IRT"; the key wages exactly when the caller
\* set them, as the list of {iban, amount, description} in the given order;
\* the key metadata always, an object of exactly the sub-fields the caller
\* set; amount, callback_url and description; and no key for the client.
C20_RequestPaymentBody ==
    (Serialized /\ method = "Request") =>
        /\ ("currency" \in DOMAIN json) <=> (built.currency # None)
        /\ built.currency # None =>
              /\ json["currency"] = JStr(built.currency.value)
              /\ json["currency"].s \in {"IRR", "IRT"}
        /\ ("wages" \in DOMAIN json) <=> (built.wages # None)
        /\ built.wages # None =>
              /\ json["wages"].t = "list"
              /\ Len(json["wages"].l) = Len(built.wages.value)
              /\ \A i \in 1..Len(built.wages.value) :
                    json["wages"].l[i] =
                        [iban |-> JStr(built.wages.value[i].iban),
                         amount |-> JNum(built.wages.value[i].amount),
                         description |-> JStr(built.wages.value[i].description)]
        /\ "metadata" \in DOMAIN json
        /\ json["metadata"].t = "obj"
        /\ DOMAIN json["metadata"].l[1] = MetadataSet
        /\ \A f \in MetadataSet :
              json["metadata"].l[1][f] = JStr(built.metadata[f].value)
        /\ json["amount"] = JNum(built.amount)
        /\ json["callback_url"] = JStr(built.callback_url)
        /\ json["description"] = JStr(built.description)
        /\ "zarinpal" \notin DOMAIN json
        /\ DOMAIN json \subseteq
              {"merchant_id", "currency", "amount", "callback_url",
               "description", "metadata", "wages"}
        /\ Posted => posts[1].json = json
\* the request of required fields only
C20_Witness ==
    /\ Posted
    /\ method = "Request"
    /\ built.currency = None
    /\ built.wages = None
    /\ MetadataSet = {}
    /\ DOMAIN json = {"merchant_id", "amount", "callback_url", "description",
                      "metadata"}
    /\ json["metadata"] = JObj(EmptyObject)
    /\ json["amount"] = JNum(10000)

-----------------------------------------------------------------------------
(* Properties of calls in flight together, checked under ConcurrentSpec    *)

\* what call c must hold at its position, from its own request and its own
\* response alone
OwnRequest(c) == set_merchant_id_if_needed(c.method, c.built, CanonicalId)
OwnOutcome(c) ==
    IF c.response.tag = "Err" THEN Err(HttpClientError(c.response.error))
    ELSE SendResult(DeserializeApiResult(c.method, c.body))
DependsOnItselfOnly(c) ==
    /\ c.pc \notin {"called", "url"} => c.request = OwnRequest(c)
    /\ c.pc \notin {"called", "url", "defaulted"} =>
          c.json = Serialize(c.method, OwnRequest(c))
    /\ c.pc \notin {"called", "url", "defaulted", "serialized"} =>
          c.posts = <<[url |-> set_path(BaseUrl, PATH(c.method)), json |-> c.json]>>
    /\ c.pc \in {"returned", "panicked"} => c.outcome = OwnOutcome(c)

\* C21: calls of send in flight on one client do not interfere: in every
\* interleaving each call's request, body, POST and outcome are those its
\* own request and its own response give, a step of one call leaves the
\* locals of every other call as they were, and the client keeps its
\* merchant id and base url.
C21_NoInterference ==
    /\ [](shared # NoValue =>
            /\ shared = new(CanonicalId)
            /\ \A i \in CallIds : DependsOnItselfOnly(calls[i]))
    /\ [][shared # NoValue =>
            /\ shared' = shared
            /\ \E i \in CallIds : \A j \in CallIds \ {i} : calls'[j] = calls[j]]_vars
\* one call has failed in the transport and another has a success, each
\* with its own merchant id on the wire
C21_Witness ==
    /\ shared # NoValue
    /\ calls[1].pc = "returned"
    /\ calls[1].response.tag = "Err"
    /\ calls[1].built.merchant_id = None
    /\ calls[2].pc = "returned"
    /\ calls[2].outcome.tag = "Ok"
    /\ calls[2].built.merchant_id # None
    /\ calls[1].posts[1].json["merchant_id"] = JStr(CanonicalId)
    /\ calls[2].posts[1].json["merchant_id"] = JStr("explicit-merchant-id")

-----------------------------------------------------------------------------
(* Properties of the order of the steps of send, checked under CallSpec    *)

\* C22: within a call the hook runs before the body is serialized, the body
\* is serialized before the POST, and decoding and the mapping of its
\* result come only after a response was received; the posted body carries
\* the defaulted merchant id.
C22_StepOrder ==
    /\ [](/\ pc \in {"start", "constructed", "failed", "built", "called", "url",
                     "defaulted"} => (json = NoValue /\ posts = <<>>)
          /\ pc = "serialized" => (posts = <<>> /\ response = NoValue)
          /\ ~Posted => (decoded = NoValue /\ outcome = NoValue)
          /\ Posted =>
                /\ posts[1].json = Serialize(method, request)
                /\ posts[1].json["merchant_id"] = JStr(request.merchant_id.value)
                /\ posts[1].json["merchant_id"] # JNull)
    /\ [][/\ json' # json => (request.merchant_id # None /\ posts = <<>>)
          /\ posts' # posts => (json = Serialize(method, request) /\ response = NoValue)
          /\ decoded' # decoded => (response = Ok("response") /\ Len(posts) = 1)
          /\ (outcome' # outcome /\ response' = Ok("response")) => decoded # NoValue]_vars
C22_Witness ==
    /\ pc = "returned"
    /\ method = "Unverified"
    /\ built.merchant_id = None
    /\ posts[1].json["merchant_id"] = JStr(CanonicalId)
    /\ decoded # NoValue
    /\ outcome.tag = "Ok"

-----------------------------------------------------------------------------
(* Properties of a missing key of the envelope, checked under Spec         *)

\* the received body with an empty array in place of each missing key
Filled ==
    [k \in {"data", "errors"} |-> IF HasSlot(k) THEN body[k] ELSE SlotArray(0)]
\* slot k, when it is there, is an empty array or an object that decodes
PresentSlotIsFine(k) ==
    HasSlot(k) =>
        \/ IsArraySlot(k) /\ body[k].len = 0
        \/ /\ IsObjectSlot(k)
           /\ IF k = "data" THEN DeserializeResult(method, body[k].obj).tag = "Ok"
              ELSE DeserializeApiError(body[k].obj).tag = "Ok"

\* C23: a missing data or errors key is treated as that key holding an
\* empty array: the slot is absent, the decoding does not fail because of
\* it, and send resolves as it does for the body with [] in its place.
C23_MissingKeyIsEmptyArray ==
    (pc # "received" /\ (~HasSlot("data") \/ ~HasSlot("errors")))
        => /\ decoded = DeserializeApiResult(method, Filled)
           /\ (PresentSlotIsFine("data") /\ PresentSlotIsFine("errors"))
                 => /\ decoded.tag = "Ok"
                    /\ \A k \in {"data", "errors"} \ DOMAIN body :
                          decoded.value[k] = WiredNone
           /\ Resolved =>
                 (outcome = SendResult(DeserializeApiResult(method, Filled))
                  /\ (pc = "panicked") =
                         (SendResult(DeserializeApiResult(method, Filled)) = Panic
                          \/ inspected = Panic))
C23_Witness ==
    /\ pc = "returned"
    /\ ~HasSlot("data")
    /\ IsObjectSlot("errors")
    /\ outcome.tag = "Err"
    /\ outcome.error.variant = "ZarinpalApiError"
    /\ outcome = SendResult(DeserializeApiResult(method, Filled))

-----------------------------------------------------------------------------
(* Properties of the ApiError kind, checked under CallSpec                 *)

\* C24: send returns the ApiError kind only for a received envelope whose
\* data is absent and whose errors is an object; the ApiError holds the
\* decoded values of that object, and no transport failure, decode failure
\* or success gives one.
C24_ApiErrorOnlyFromErrorBranch ==
    /\ (outcome.tag = "Err" /\ outcome.error.variant = "ZarinpalApiError")
          => /\ response = Ok("response")
             /\ decoded.tag = "Ok"
             /\ ~HasSlot("data") \/ (IsArraySlot("data") /\ body["data"].len = 0)
             /\ IsObjectSlot("errors")
             /\ LET e == body["errors"].obj
                IN /\ outcome.error.api.code = FromI64(e["code"].n)
                   /\ outcome.error.api.message = e["message"].s
                   /\ DOMAIN outcome.error.api.validations = FieldsOf(e["validations"].l)
                   /\ \A f \in FieldsOf(e["validations"].l) :
                         outcome.error.api.validations[f] = ValuesOf(e["validations"].l, f)
    /\ (TransportFailed \/ DecodeFailed \/ IsObjectSlot("data"))
          => (outcome.tag = "Err" => outcome.error.variant # "ZarinpalApiError")
C24_Witness ==
    /\ pc = "returned"
    /\ IsArraySlot("data")
    /\ body["data"].len = 0
    /\ IsObjectSlot("errors")
    /\ outcome.tag = "Err"
    /\ outcome.error.variant = "ZarinpalApiError"
    /\ outcome.error.api.code = Named("Validation")
    /\ DOMAIN outcome.error.api.validations = {"merchant_id"}

-----------------------------------------------------------------------------
(* Properties of Authorities::verify, checked under VerifyAllSpec          *)

\* the body of the Verify request of entry k through the client at hand
VerifyBodyOf(k) ==
    [merchant_id |-> JStr(shared.value.merchant_id),
     amount |-> JNum(authorities[k].amount),
     authority |-> JStr(authorities[k].authority)]

\* C25: verify on an entry of an unverified list sends exactly one Verify
\* request with the authority and amount of that entry and the merchant id
\* of the client it is given; the entries verified one after another give
\* one Verify each, in list order.
C25_VerifyEachEntry ==
    /\ [](/\ Len(verifyPosts) = Len(verifyResults)
          /\ Len(verifyPosts) <= Len(authorities)
          /\ \A k \in 1..Len(verifyPosts) :
                /\ verifyPosts[k].url.path = "/pg/v4/payment/verify.json"
                /\ verifyPosts[k].json = VerifyBodyOf(k))
    /\ [][/\ Len(verifyPosts') = Len(verifyPosts) + 1
          /\ Len(verifyResults') = Len(verifyResults) + 1
          /\ SubSeq(verifyPosts', 1, Len(verifyPosts)) = verifyPosts]_aVars
\* two different entries verified, the second after the first failed
C25_Witness ==
    /\ Len(authorities) = 2
    /\ authorities[1] # authorities[2]
    /\ Len(verifyPosts) = 2
    /\ verifyResults[1].tag = "Err"
    /\ verifyPosts[1].json["amount"] = JNum(70000)
    /\ verifyPosts[2].json["amount"] = JNum(50500)
    /\ verifyPosts[2].json["authority"] = JStr("A00000000000000000000000000207288780")
    /\ verifyPosts[2].json["merchant_id"] = JStr(CanonicalId)

-----------------------------------------------------------------------------
(* Properties of awaiting a built request, checked under CallSpec          *)

\* the call came through into_future: the handle was taken out of the request
Awaited ==
    /\ pc \notin {"start", "constructed", "failed", "built"}
    /\ request.zarinpal = None

-----------------------------------------------------------------------------
(* Properties of the merchant-id hook, checked under HookSpec              *)

\* C27: on all three requests the hook is idempotent and the first writer
\* wins: after any calls with any ids the merchant id is the one the caller
\* set, or else the id of the first call; a later call changes nothing, and
\* no other field of the request is changed.
C27_HookFirstWriterWins ==
    /\ [](hookCalls # <<>> =>
            /\ request.merchant_id =
                  IF built.merchant_id # None THEN built.merchant_id
                  ELSE Some(hookCalls[1])
            /\ DOMAIN request = DOMAIN built
            /\ \A f \in DOMAIN built \ {"merchant_id"} : request[f] = built[f]
            /\ \A id \in HookIds :
                  set_merchant_id_if_needed(method, request, id) = request)
    /\ [][hookCalls # <<>> => request' = request]_<<request, hookCalls>>
C27_Witness ==
    /\ Len(hookCalls) = 3
    /\ method = "Verify"
    /\ built.merchant_id = None
    /\ hookCalls[1] = "another-merchant-id"
    /\ hookCalls[2] = CanonicalId
    /\ request.merchant_id = Some("another-merchant-id")

====
